---- MODULE Spec2Model ----
(***************************************************************************)
(* A model of src/index.js (EmmetToElement): emmetToElements and           *)
(* simplifiedEmmetToElement.                                               *)
(*                                                                         *)
(* A JavaScript string is a sequence of one-character strings; indices in  *)
(* the helpers are 0-based as in JavaScript.  An HTMLElement is a record   *)
(* [tagName, id, className, textContent, attributes, children].            *)
(***************************************************************************)
EXTENDS Integers, Sequences, FiniteSets, TLC

VARIABLES
  pc,               \* position of the call: "call", "split" or "parse", "done"
  fn,               \* the entry point that was called
  input,            \* the argument the caller passed
  segment,          \* emmetToElements: const segment (line 38)
  emmetString,      \* the working string (parameter, reassigned at 66 and 132)
  dividedSections,  \* splitEmmetIntoSections: the Map, as a function on its keys
  identifierCount,  \* splitEmmetIntoSections: the counter (line 50)
  result            \* the outcome of the call: elements returned or error thrown

vars == <<pc, fn, input, segment, emmetString, dividedSections, identifierCount, result>>

(***************************************************************************)
(* JavaScript string primitives                                            *)
(***************************************************************************)
Min(a, b) == IF a <= b THEN a ELSE b

Max(a, b) == IF a >= b THEN a ELSE b

\* the characters /\s/ matches that the model's inputs use
Whitespace == {" ", "\t", "\n", "\r"}

\* String.prototype.indexOf(c) for a one-character c: 0-based, -1 when absent
IndexOf(s, c) ==
  IF \E i \in 1..Len(s) : s[i] = c
  THEN (CHOOSE i \in 1..Len(s) : s[i] = c /\ \A j \in 1..(i - 1) : s[j] # c) - 1
  ELSE -1

\* String.prototype.lastIndexOf(c)
LastIndexOf(s, c) ==
  IF \E i \in 1..Len(s) : s[i] = c
  THEN (CHOOSE i \in 1..Len(s) : s[i] = c /\ \A j \in (i + 1)..Len(s) : s[j] # c) - 1
  ELSE -1

\* String.prototype.substring(start, end): both clamped to 0..length, swapped
\* when start > end
Substring(s, start, end) ==
  LET a == Min(Max(start, 0), Len(s))
      b == Min(Max(end, 0), Len(s))
  IN SubSeq(s, Min(a, b) + 1, Max(a, b))

\* String.prototype.substring(start)
SubstringFrom(s, start) == Substring(s, start, Len(s))

\* String.prototype.trim()
Trim(s) ==
  IF \A i \in 1..Len(s) : s[i] \in Whitespace
  THEN <<>>
  ELSE LET lo == CHOOSE i \in 1..Len(s) :
                   s[i] \notin Whitespace /\ \A j \in 1..(i - 1) : s[j] \in Whitespace
           hi == CHOOSE i \in 1..Len(s) :
                   s[i] \notin Whitespace /\ \A j \in (i + 1)..Len(s) : s[j] \in Whitespace
       IN SubSeq(s, lo, hi)

RECURSIVE Split(_, _)
\* String.prototype.split(c) for a one-character separator c
Split(s, c) ==
  LET i == IndexOf(s, c)
  IN IF i = -1 THEN <<s>>
     ELSE <<Substring(s, 0, i)>> \o Split(SubstringFrom(s, i + 1), c)

RECURSIVE Join(_, _)
\* Array.prototype.join(sep)
Join(parts, sep) ==
  IF parts = <<>> THEN <<>>
  ELSE IF Len(parts) = 1 THEN parts[1]
  ELSE parts[1] \o sep \o Join(Tail(parts), sep)

\* String.prototype.replace(pattern, replacement) with a string pattern: the
\* first occurrence only, the string unchanged when there is none
ReplaceFirst(s, pattern, replacement) ==
  LET n == Len(pattern)
      Hits == {i \in 1..(Len(s) - n + 1) : SubSeq(s, i, i + n - 1) = pattern}
  IN IF Hits = {} THEN s
     ELSE LET i == CHOOSE h \in Hits : \A k \in Hits : h <= k
          IN SubSeq(s, 1, i - 1) \o replacement \o SubSeq(s, i + n, Len(s))

\* xs.map((i) => i.trim())
TrimAll(xs) == [i \in 1..Len(xs) |-> Trim(xs[i])]

RECURSIVE NonBlank(_)
\* xs.filter((i) => i.trim())
NonBlank(xs) ==
  IF xs = <<>> THEN <<>>
  ELSE (IF Trim(Head(xs)) # <<>> THEN <<Head(xs)>> ELSE <<>>) \o NonBlank(Tail(xs))

RECURSIVE RemoveControl(_)
\* replace(/[\t\n\r]/g, "")
RemoveControl(s) ==
  IF s = <<>> THEN <<>>
  ELSE (IF Head(s) \in {"\t", "\n", "\r"} THEN <<>> ELSE <<Head(s)>>)
       \o RemoveControl(Tail(s))

RECURSIVE CollapseSpaces(_)
\* replace(/\s+/g, " ")
CollapseSpaces(s) ==
  IF s = <<>> THEN <<>>
  ELSE IF Head(s) \in Whitespace
       THEN LET rest == CollapseSpaces(Tail(s))
            IN IF Len(s) > 1 /\ s[2] \in Whitespace THEN rest ELSE <<" ">> \o rest
       ELSE <<Head(s)>> \o CollapseSpaces(Tail(s))

\* lines 132 and 148: emmetString.replace(/[\t\n\r]/g, "").replace(/\s+/g, " ")
Normalize(s) == CollapseSpaces(RemoveControl(s))

Digit(d) == <<"0", "1", "2", "3", "4", "5", "6", "7", "8", "9">>[d + 1]

RECURSIVE NatToStr(_)
\* a non-negative integer converted to a string by + or a template literal
NatToStr(n) == IF n < 10 THEN <<Digit(n)>> ELSE NatToStr(n \div 10) \o <<Digit(n % 10)>>

(***************************************************************************)
(* Outcomes: a call returns elements or throws                             *)
(***************************************************************************)
NoError == "none"

\* throw new Error("Invalid Emmet string provided") (line 105)
InvalidEmmet == "Error: Invalid Emmet string provided"

\* reading a property of undefined (line 172: parts[1].indexOf)
TypeError == "TypeError"

\* the engine's "Maximum call stack size exceeded"
RangeError == "RangeError"

(***************************************************************************)
(* simplifiedEmmetToElement (lines 147-192)                                *)
(***************************************************************************)
\* lines 150-156: [innerText, emmetString after the text block is cut off]
InnerText(s) ==
  LET textIndex == LastIndexOf(s, "{")
  IN IF textIndex # -1
     THEN [innerText |-> Substring(s, textIndex + 1, IndexOf(s, "}")),
           rest |-> Substring(s, 0, textIndex)]
     ELSE [innerText |-> <<>>, rest |-> s]

\* lines 162-165
AttributeText(s) == Substring(s, LastIndexOf(s, "[") + 1, IndexOf(s, "]"))

\* lines 166-169: the tokens of the attribute block
AttributeTokens(attributeText) ==
  NonBlank(Split(Trim(attributeText), " "))

\* lines 171-174 for one token that has parts[1]
AttributePair(attr) ==
  LET parts == Split(Trim(attr), "=")
      raw == parts[2]
      value == IF IndexOf(raw, "\"") # -1
               THEN Substring(raw, 1, LastIndexOf(raw, "\""))
               ELSE raw
  IN <<parts[1], value>>

\* line 172 throws when parts[1] is undefined
AttributeThrows(attr) == Len(Split(Trim(attr), "=")) < 2

\* lines 170-175: the map over the tokens
AttributePairs(tokens) == [i \in 1..Len(tokens) |-> AttributePair(tokens[i])]

RECURSIVE SetAttributes(_, _)
\* line 190: Element.setAttribute for each pair: a repeated name keeps its
\* place and takes the later value
SetAttributes(attrs, pairs) ==
  IF pairs = <<>> THEN attrs
  ELSE LET p == Head(pairs)
           next == IF \E i \in 1..Len(attrs) : attrs[i][1] = p[1]
                   THEN [i \in 1..Len(attrs) |->
                           IF attrs[i][1] = p[1] THEN p ELSE attrs[i]]
                   ELSE Append(attrs, p)
       IN SetAttributes(next, Tail(pairs))

\* lines 159-177: the attributes array, for a string whose tokens all have
\* parts[1]
Attributes(s) ==
  IF LastIndexOf(s, "[") # -1
  THEN AttributePairs(AttributeTokens(AttributeText(s)))
  ELSE <<>>

\* lines 161-175: some token of the attribute block makes line 172 throw
AttributesThrow(s) ==
  /\ LastIndexOf(s, "[") # -1
  /\ LET tokens == AttributeTokens(AttributeText(s))
     IN \E i \in 1..Len(tokens) : AttributeThrows(tokens[i])

\* line 176: emmetString.replace(`[${attributeText}]`, "")
WithoutAttributes(s) ==
  IF LastIndexOf(s, "[") # -1
  THEN ReplaceFirst(s, <<"[">> \o AttributeText(s) \o <<"]">>, <<>>)
  ELSE s

\* document.createElement("div") when the tag name is empty (line 182)
DefaultTag == <<"d", "i", "v">>

\* lines 158-191: the element made of the string left of the text block and of
\* the inner text; [err, el]
ElementOf(s, innerText) ==
  LET split == Split(WithoutAttributes(s), ".")
      beforeClasses == split[1]
      classes == TrimAll(Tail(split))
      hash == Split(beforeClasses, "#")
      tagName == IF Trim(hash[1]) # <<>> THEN Trim(hash[1]) ELSE DefaultTag
      id == IF Len(hash) >= 2 /\ hash[2] # <<>> THEN Trim(hash[2]) ELSE <<>>
  IN IF AttributesThrow(s)
     THEN [err |-> TypeError, el |-> <<>>]
     ELSE [err |-> NoError,
           el |-> [tagName |-> tagName,
                   id |-> id,
                   className |-> Join(classes, <<" ">>),
                   textContent |-> innerText,
                   attributes |-> SetAttributes(<<>>, Attributes(s)),
                   children |-> <<>>]]

\* lines 147-192: [err, el]
SimplifiedEmmetToElement(arg) ==
  LET text == InnerText(Normalize(arg))
  IN ElementOf(text.rest, text.innerText)

(***************************************************************************)
(* emmetToElements: grouping (lines 48-76)                                 *)
(***************************************************************************)
\* line 38: "segment_" + parseInt(Math.random()*1000), for the outcome n
SegmentOf(n) == <<"s", "e", "g", "m", "e", "n", "t", "_">> \o NatToStr(n)

\* line 58: `${segment}${identifierCount++}`
UniqueIdentifier(seg, count) == seg \o NatToStr(count)

\* line 59: Map.prototype.set
MapSet(sections, key, value) ==
  [k \in (DOMAIN sections) \cup {key} |-> IF k = key THEN value ELSE sections[k]]

Paren == {"(", ")"}

\* ExecGroup with the pattern /\((.*)\)/: from the first "(" to the last ")"
ExecGroupGreedy(s) ==
  LET Opens == {i \in 1..Len(s) : s[i] = "(" /\ \E j \in (i + 1)..Len(s) : s[j] = ")"}
  IN IF Opens = {} THEN [found |-> FALSE, group |-> <<>>]
     ELSE LET i == CHOOSE o \in Opens : \A k \in Opens : o <= k
              j == CHOOSE c \in (i + 1)..Len(s) :
                     s[c] = ")" /\ \A k \in (c + 1)..Len(s) : s[k] # ")"
          IN [found |-> TRUE, group |-> SubSeq(s, i + 1, j - 1)]

\* lines 63 and 65: /\(([^()]*)\)/.exec(s): the leftmost "(" whose next
\* parenthesis is a ")".  [found, group], group being matchedGroup[1]
ExecGroup(s) ==
  LET Closes(i) == \E j \in (i + 1)..Len(s) :
                      s[j] = ")" /\ \A k \in (i + 1)..(j - 1) : s[k] \notin Paren
      Opens == {i \in 1..Len(s) : s[i] = "(" /\ Closes(i)}
  IN IF Opens = {} THEN [found |-> FALSE, group |-> <<>>]
     ELSE LET i == CHOOSE o \in Opens : \A k \in Opens : o <= k
              j == CHOOSE c \in (i + 1)..Len(s) :
                     s[c] = ")" /\ \A k \in (i + 1)..(c - 1) : s[k] \notin Paren
          IN [found |-> TRUE, group |-> SubSeq(s, i + 1, j - 1)]

\* lines 66-69: one iteration of the while loop, on the loop's three variables
SplitIteration(s, sections, count, seg) ==
  LET group == ExecGroup(s).group
      id == UniqueIdentifier(seg, count)
  IN [emmetString |-> ReplaceFirst(s, <<"(">> \o group \o <<")">>, id),
      dividedSections |-> MapSet(sections, id, group),
      identifierCount |-> count + 1]

RECURSIVE SplitLoop(_, _, _, _)
\* lines 65-75: the while loop run to its end
SplitLoop(s, sections, count, seg) ==
  IF ~ExecGroup(s).found
  THEN [emmetString |-> s, dividedSections |-> sections, identifierCount |-> count]
  ELSE LET n == SplitIteration(s, sections, count, seg)
       IN SplitLoop(n.emmetString, n.dividedSections, n.identifierCount, seg)

\* the empty Map (line 49)
EmptyMap == [k \in {} |-> <<>>]

(***************************************************************************)
(* emmetToElements: expansion (lines 86-130)                               *)
(*                                                                         *)
(* Each function returns [err, els, log]: the error thrown or the elements *)
(* returned, and the calls of createParalel made on the way, each with the *)
(* depth of createParalel frames it ran at.                                *)
(***************************************************************************)
\* createParalel frames the engine's call stack holds before it throws
MaxCallDepth == 6

Throw(e, log) == [err |-> e, els |-> <<>>, log |-> log]

Return(els, log) == [err |-> NoError, els |-> els, log |-> log]

RECURSIVE AppendChildAt(_, _, _)
\* line 112: traversalParent.appendChild(child), traversalParent being the
\* node of the tree under root that path leads to
AppendChildAt(root, path, child) ==
  IF path = <<>>
  THEN [root EXCEPT !.children = Append(@, child)]
  ELSE [root EXCEPT !.children[Head(path)] = AppendChildAt(@, Tail(path), child)]

RECURSIVE AppendChildren(_, _, _)
\* lines 111-113: children.forEach(child => traversalParent.appendChild(child))
AppendChildren(root, path, children) ==
  IF children = <<>> THEN root
  ELSE AppendChildren(AppendChildAt(root, path, Head(children)), path, Tail(children))

RECURSIVE NodeAt(_, _)
NodeAt(root, path) ==
  IF path = <<>> THEN root ELSE NodeAt(root.children[Head(path)], Tail(path))

RECURSIVE CreateParalel(_, _, _)
RECURSIVE CreateParental(_, _, _)
RECURSIVE CreateHTMLElement(_, _, _)
RECURSIVE ParalelMap(_, _, _, _, _)
RECURSIVE ParentalForEach(_, _, _, _, _, _)

\* the outcome r of a call, the calls of log added to those it made
WithLog(r, log) == [r EXCEPT !.log = @ \cup log]

\* line 129: [simplifiedEmmetToElement(component)], or what it throws
LeafOutcome(r) == IF r.err # NoError THEN Throw(r.err, {}) ELSE Return(<<r.el>>, {})

\* lines 125-130
CreateHTMLElement(component, sections, depth) ==
  IF component \in DOMAIN sections
  THEN CreateParalel(sections[component], sections, depth + 1)
  ELSE LeafOutcome(SimplifiedEmmetToElement(component))

\* ParentalAttach with line 114 as traversalParent = children[children.length - 1]
ParentalAttachLast(components, i, root, path, sections, depth, children) ==
  IF children.err # NoError THEN children
  ELSE IF children.els = <<>> /\ i < Len(components)
       THEN Throw(TypeError, children.log)
  ELSE WithLog(ParentalForEach(components, i + 1,
                               AppendChildren(root, path, children.els),
                               Append(path, Len(NodeAt(root, path).children)
                                            + Len(children.els)),
                               sections, depth),
               children.log)

\* lines 111-114 for component i, children being the outcome of line 110, and
\* the components after it; with children empty, traversalParent is undefined
\* and line 112 throws for the next component
ParentalAttach(components, i, root, path, sections, depth, children) ==
  IF children.err # NoError THEN children
  ELSE IF children.els = <<>> /\ i < Len(components)
       THEN Throw(TypeError, children.log)
  ELSE WithLog(ParentalForEach(components, i + 1,
                               AppendChildren(root, path, children.els),
                               Append(path, Len(NodeAt(root, path).children) + 1),
                               sections, depth),
               children.log)

\* lines 109-115: components.forEach from component i on; root is the tree
\* under parentComponent so far and path leads to traversalParent in it
ParentalForEach(components, i, root, path, sections, depth) ==
  IF i > Len(components) THEN Return(<<root>>, {})
  ELSE ParentalAttach(components, i, root, path, sections, depth,
                      CreateHTMLElement(components[i], sections, depth))

\* lines 107-116: parentComponent is element [0] of first, the outcome of
\* createHTMLElement(firstComponent)
ParentalFrom(first, components, sections, depth) ==
  IF first.err # NoError THEN first
  ELSE IF first.els = <<>> THEN Throw(TypeError, first.log)
  ELSE WithLog(ParentalForEach(components, 1, first.els[1], <<>>, sections, depth),
               first.log)

\* CreateParental without the check of lines 104-106
CreateParentalUnchecked(emmetStr, sections, depth) ==
  LET components == TrimAll(Split(emmetStr, ">"))
  IN ParentalFrom(CreateHTMLElement(Head(components), sections, depth),
                  Tail(components), sections, depth)

\* lines 100-117
CreateParental(emmetStr, sections, depth) ==
  LET components == TrimAll(Split(emmetStr, ">"))
      firstComponent == Head(components)
  IN IF firstComponent = <<>> THEN Throw(InvalidEmmet, {})
     ELSE ParentalFrom(CreateHTMLElement(firstComponent, sections, depth),
                       Tail(components), sections, depth)

\* line 88 for element i, nativeElement being the outcome of
\* createParental(element), and the elements after it
ParalelNext(elements, i, sections, depth, done, nativeElement) ==
  IF nativeElement.err # NoError THEN nativeElement
  ELSE WithLog(ParalelMap(elements, i + 1, sections, depth,
                          Append(done, nativeElement.els[1])),
               nativeElement.log)

\* line 88: elements.map(createParental) from element i on
ParalelMap(elements, i, sections, depth, done) ==
  IF i > Len(elements) THEN Return(done, {})
  ELSE ParalelNext(elements, i, sections, depth, done,
                   CreateParental(elements[i], sections, depth))

\* lines 86-90
CreateParalel(emmetStr, sections, depth) ==
  IF depth > MaxCallDepth
  THEN Throw(RangeError, {[emmetString |-> emmetStr, depth |-> depth]})
  ELSE WithLog(ParalelMap(TrimAll(Split(emmetStr, "+")), 1, sections, depth, <<>>),
               {[emmetString |-> emmetStr, depth |-> depth]})

\* lines 37-137 as a function of the argument and of Math.random's outcome
EmmetToElements(arg, random) ==
  LET sections == SplitLoop(Normalize(arg), EmptyMap, 0, SegmentOf(random))
  IN CreateParalel(sections.emmetString, sections.dividedSections, 1)

(***************************************************************************)
(* The calls the model makes                                               *)
(***************************************************************************)
\* the longest generated argument of emmetToElements, in lexemes
MaxLen == 6

\* the outcomes of parseInt(Math.random()*1000) (line 38) the model draws
RandomOutcomes == {1, 2}

\* lexemes that stand where a tag stands: two tags, a tag with an attribute
\* block that has no "=", and the first identifier a call generates when
\* Math.random gives 1
TagLexemes ==
  {<<"a">>, <<"b">>, <<"a", "[", "x", "]">>, UniqueIdentifier(SegmentOf(1), 0)}

OperatorLexemes == {<<"+">>, <<">">>}

RECURSIVE Written(_, _, _, _)
\* the caller's argument is s followed by at most n more lexemes that close the
\* open groups s leaves open; tag tells that s ends with a tag lexeme, and two
\* tag lexemes never touch
Written(s, open, tag, n) ==
  \/ open = 0 /\ input = s
  \/ /\ n > 0
     /\ \/ ~tag /\ \E t \in TagLexemes : Written(s \o t, open, TRUE, n - 1)
        \/ \E o \in OperatorLexemes : Written(s \o o, open, FALSE, n - 1)
        \/ open < n - 1 /\ Written(Append(s, "("), open + 1, FALSE, n - 1)
        \/ open > 0 /\ Written(Append(s, ")"), open - 1, FALSE, n - 1)

\* README (src/index.js line 203)
ReadmeExample ==
  <<"s", "e", "c", "t", "i", "o", "n", "#", "p", "a", "g", "e", ">", "(",
    "h", "e", "a", "d", "e", "r", ">", "h", "1", "{", "H", "e", "a", "d",
    "e", "r", "}", " ", "+", " ", "#", "c", "o", "n", "t", "e", "n", "t",
    "{", "C", "o", "n", "t", "e", "n", "t", "}", ")">>

\* two siblings around spaces
SiblingsExample ==
  <<"d", "i", "v", " ", "+", " ", "s", "p", "a", "n">>

\* a group of siblings under a parent
GroupExample ==
  <<"s", "e", "c", "t", "i", "o", "n", ">", "(", "h", "e", "a", "d", "e",
    "r", ">", "h", "1", "{", "H", "}", "+", "p", "{", "P", "}", ")">>

\* a chain through two groups
ChainExample ==
  <<"a", ">", "(", "b", "+", "c", ")", ">", "d", ">", "(", "e", "+", "f",
    ")">>

\* a script written over two lines
LinesExample ==
  <<"u", "l", ">", "\n", "\t", "(", "l", "i", " ", "+", " ", "l", "i", ")">>

\* a chain whose first piece is a group of two
RootGroupExample ==
  <<"(", "a", "+", "b", ")", ">", "c">>

\* groups among top-level siblings
SiblingGroupsExample ==
  <<"(", "a", ">", "b", ")", "+", "(", "c", "+", "d", ")", "+", "e">>

Examples ==
  {ReadmeExample, SiblingsExample, GroupExample, ChainExample, LinesExample,
   RootGroupExample, SiblingGroupsExample}

(***************************************************************************)
(* emmetToElements as a state machine                                      *)
(***************************************************************************)
NoResult == [err |-> NoError, els |-> <<>>, log |-> {}]

Init ==
  /\ pc = "call"
  /\ fn = "emmetToElements"
  /\ Written(<<>>, 0, FALSE, MaxLen) \/ input \in Examples
  /\ emmetString = input
  /\ segment = <<>>
  /\ dividedSections = EmptyMap
  /\ identifierCount = 0
  /\ result = NoResult

\* lines 38, 132 and 49-50: the prefix is drawn, the argument normalised and
\* splitEmmetIntoSections entered
Enter ==
  /\ pc = "call"
  /\ fn = "emmetToElements"
  /\ \E n \in RandomOutcomes : segment' = SegmentOf(n)
  /\ emmetString' = Normalize(emmetString)
  /\ dividedSections' = EmptyMap
  /\ identifierCount' = 0
  /\ pc' = "split"
  /\ UNCHANGED <<fn, input, result>>

\* lines 65-70: one iteration of the while loop
SplitStep ==
  /\ pc = "split"
  /\ ExecGroup(emmetString).found
  /\ LET n == SplitIteration(emmetString, dividedSections, identifierCount, segment)
     IN /\ emmetString' = n.emmetString
        /\ dividedSections' = n.dividedSections
        /\ identifierCount' = n.identifierCount
  /\ UNCHANGED <<pc, fn, input, segment, result>>

\* lines 72-75 and 133-136: the loop ends, createParalel(dataString) runs
\* and the call returns or throws
Expand ==
  /\ pc = "split"
  /\ ~ExecGroup(emmetString).found
  /\ result' = CreateParalel(emmetString, dividedSections, 1)
  /\ pc' = "done"
  /\ UNCHANGED <<fn, input, segment, emmetString, dividedSections, identifierCount>>

Next == Enter \/ SplitStep \/ Expand

Spec == Init /\ [][Next]_vars

(***************************************************************************)
(* simplifiedEmmetToElement as a state machine                             *)
(***************************************************************************)
\* the longest generated argument of simplifiedEmmetToElement, in characters
MaxLeafLen == 4

\* the longest generated attribute block, in characters
MaxAttrLen == 5

LeafChars == {"a", ".", "#", "{", "}", "[", "]", "=", "\"", " "}

AttrChars == {"x", "=", "\"", " "}

\* every string of at most MaxLeafLen characters, and a tag followed by every
\* attribute block of at most MaxAttrLen characters
LeafInputs ==
  UNION {[1..n -> LeafChars] : n \in 0..MaxLeafLen}
  \cup UNION {{<<"a", "[">> \o body \o <<"]">> : body \in [1..n -> AttrChars]} :
                n \in 0..MaxAttrLen}

InitLeaf ==
  /\ pc = "call"
  /\ fn = "simplifiedEmmetToElement"
  /\ input \in LeafInputs
  /\ emmetString = input
  /\ segment = <<>>
  /\ dividedSections = EmptyMap
  /\ identifierCount = 0
  /\ result = NoResult

\* line 148
LeafNormalize ==
  /\ pc = "call"
  /\ fn = "simplifiedEmmetToElement"
  /\ emmetString' = Normalize(emmetString)
  /\ pc' = "parse"
  /\ UNCHANGED <<fn, input, segment, dividedSections, identifierCount, result>>

\* lines 150-191
LeafParse ==
  /\ pc = "parse"
  /\ LET text == InnerText(emmetString)
         r == ElementOf(text.rest, text.innerText)
     IN result' = LeafOutcome(r)
  /\ pc' = "done"
  /\ UNCHANGED <<fn, input, segment, emmetString, dividedSections, identifierCount>>

NextLeaf == LeafNormalize \/ LeafParse

SpecLeaf == InitLeaf /\ [][NextLeaf]_vars

(***************************************************************************)
(* Properties of simplifiedEmmetToElement                                  *)
(***************************************************************************)
LeafDone == pc = "done" /\ fn = "simplifiedEmmetToElement"

\* the index of the first c of s after index from, -1 when there is none
IndexAfter(s, c, from) ==
  LET i == IndexOf(SubstringFrom(s, from + 1), c)
  IN IF i = -1 THEN -1 ELSE from + 1 + i

\* characters every version of the DOM accepts in a tag or attribute name
NameChars ==
  {"a", "b", "c", "d", "e", "f", "g", "h", "i", "j", "k", "l", "m", "n", "o", "p",
   "q", "r", "s", "t", "u", "v", "w", "x", "y", "z", "_", "0", "1", "2", "3", "4",
   "5", "6", "7", "8", "9"}

PlainName(s) == s # <<>> /\ \A i \in 1..Len(s) : s[i] \in NameChars

\* the call returned one element whose tag name and attribute names are names
\* document.createElement and setAttribute accept
ReturnedPlainElement ==
  /\ result.err = NoError
  /\ Len(result.els) = 1
  /\ PlainName(result.els[1].tagName)
  /\ \A i \in 1..Len(result.els[1].attributes) : PlainName(result.els[1].attributes[i][1])

\* C9: when the token has a "{" and a "}" after its last "{", the element is
\* the one made of the string left of the last "{", with for text the
\* characters strictly between the last "{" and the first "}" after it.
C9_TextIsBetweenLastOpenAndNextClose ==
  (LeafDone /\ ReturnedPlainElement) =>
    LET s == Normalize(input)
        open == LastIndexOf(s, "{")
        close == IndexAfter(s, "}", open)
    IN (open # -1 /\ close # -1) =>
         result = LeafOutcome(ElementOf(Substring(s, 0, open), Substring(s, open + 1, close)))

\* the pair the claim gives a token that has a "=": the name before the first
\* "=", the value after it, cut to what lies between its first and last quote
\* when it has one
PairSplitOnce(token) ==
  LET eq == IndexOf(token, "=")
      raw == SubstringFrom(token, eq + 1)
  IN <<Substring(token, 0, eq),
       IF IndexOf(raw, "\"") # -1
       THEN Substring(raw, IndexOf(raw, "\"") + 1, LastIndexOf(raw, "\""))
       ELSE raw>>

\* C10: the attribute block between the last "[" and the first "]" after it
\* is cut at whitespace; a token with no "=" makes the call throw, otherwise
\* the attributes array holds, in order, one pair per token: the name before
\* the first "=" and the whole value after it, without its quotes.
C10_OnePairPerTokenSplitOnce ==
  LeafDone =>
    LET s == InnerText(Normalize(input)).rest
        open == LastIndexOf(s, "[")
        close == IndexAfter(s, "]", open)
        tokens == NonBlank(Split(Substring(s, open + 1, close), " "))
    IN (open # -1 /\ close # -1) =>
         IF \E i \in 1..Len(tokens) : IndexOf(tokens[i], "=") = -1
         THEN result.err = TypeError
         ELSE /\ result.err = NoError
              /\ ~AttributesThrow(s)
              /\ ReturnedPlainElement =>
                   Attributes(s) = [i \in 1..Len(tokens) |-> PairSplitOnce(tokens[i])]

(***************************************************************************)
(* Properties of emmetToElements                                           *)
(***************************************************************************)
Done == pc = "done" /\ fn = "emmetToElements"

\* the argument as line 132 leaves it
Script == Normalize(input)

RECURSIVE Depths(_)
\* Depths(s)[i] is the number of groups open after the first i characters of s
Depths(s) ==
  IF s = <<>> THEN <<>>
  ELSE LET before == Depths(SubSeq(s, 1, Len(s) - 1))
           open == IF before = <<>> THEN 0 ELSE before[Len(before)]
           last == s[Len(s)]
       IN Append(before, IF last = "(" THEN open + 1
                         ELSE IF last = ")" THEN open - 1 ELSE open)

Balanced(s) ==
  LET depth == Depths(s)
  IN /\ \A i \in 1..Len(s) : depth[i] >= 0
     /\ s # <<>> => depth[Len(s)] = 0

\* the deepest nesting of groups in s
NestingDepth(s) ==
  LET depth == Depths(s)
  IN CHOOSE d \in 0..Len(s) :
       /\ \A i \in 1..Len(s) : depth[i] <= d
       /\ d = 0 \/ \E i \in 1..Len(s) : depth[i] = d

\* k occurs in s
Occurs(k, s) == \E i \in 1..(Len(s) - Len(k) + 1) : SubSeq(s, i, i + Len(k) - 1) = k

RECURSIVE Pieces(_, _)
\* the pieces of s between the characters of seps, trimmed
Pieces(s, seps) ==
  IF \A i \in 1..Len(s) : s[i] \notin seps THEN <<Trim(s)>>
  ELSE LET i == CHOOSE k \in 1..Len(s) :
                  s[k] \in seps /\ \A j \in 1..(k - 1) : s[j] \notin seps
       IN <<Trim(SubSeq(s, 1, i - 1))>> \o Pieces(SubSeq(s, i + 1, Len(s)), seps)

\* what the caller wrote between the operators and parentheses of the script
UserPieces ==
  LET pieces == Pieces(Script, {"+", ">", "(", ")"})
  IN {pieces[i] : i \in 1..Len(pieces)}

RECURSIVE NodesOf(_)
\* the elements of a forest, descendants included
NodesOf(els) ==
  {els[i] : i \in 1..Len(els)} \cup UNION {NodesOf(els[i].children) : i \in 1..Len(els)}

\* C7: the identifiers generated in one call are distinct from each other, and
\* none of them is a piece of the text the caller wrote.
C7_IdentifiersCollideWithNothing ==
  (fn = "emmetToElements" /\ pc \in {"split", "done"}) =>
    /\ Cardinality(DOMAIN dividedSections) = identifierCount
    /\ \A k \in DOMAIN dividedSections : k \notin UserPieces

\* C6: the call ends by returning or by throwing one of its own errors, after
\* at most one replacement per "(" of the script and with createParalel never
\* nested deeper than the groups of the script are.
C6_RecursionBoundedByNesting ==
  Done =>
    /\ identifierCount <= Cardinality({i \in 1..Len(Script) : Script[i] = "("})
    /\ result.err # RangeError
    /\ \A c \in result.log : c.depth <= NestingDepth(Script) + 1

\* no "+" or ">" of s lies inside a "{...}" or "[...]" block
NoOperatorInBlocks(s) ==
  \A j \in 1..Len(s) :
    s[j] \in {"+", ">"} =>
      /\ ~\E i \in 1..(j - 1) : s[i] = "{" /\ \A k \in (i + 1)..(j - 1) : s[k] # "}"
      /\ ~\E i \in 1..(j - 1) : s[i] = "[" /\ \A k \in (i + 1)..(j - 1) : s[k] # "]"

\* C3: on a script with balanced parentheses and no operator inside a block,
\* the call has the same outcome whatever Math.random gives.
C3_SameOutcomeForEveryPrefix ==
  (Done /\ Balanced(Script) /\ NoOperatorInBlocks(Script)) =>
    \A n \in RandomOutcomes :
      LET other == EmmetToElements(input, n)
      IN other.err = result.err /\ other.els = result.els

\* a string the element shows: its tag name, id, class name, text, or one of
\* its attribute names or values
ShownBy(el) ==
  {el.tagName, el.id, el.className, el.textContent}
  \cup {el.attributes[i][1] : i \in 1..Len(el.attributes)}
  \cup {el.attributes[i][2] : i \in 1..Len(el.attributes)}

\* C8: when a script with balanced parentheses has been expanded, no generated
\* identifier is left in what the returned elements show.
C8_NoIdentifierInOutput ==
  (Done /\ Balanced(Script) /\ result.err = NoError) =>
    \A el \in NodesOf(result.els) : \A k \in DOMAIN dividedSections :
      \A shown \in ShownBy(el) : ~Occurs(k, shown)

\* the chains createParalel handed to createParental during the call
ChainsRun ==
  UNION {LET chains == Pieces(c.emmetString, {"+"})
         IN {[chain |-> chains[i], depth |-> c.depth] : i \in 1..Len(chains)} :
           c \in result.log}

\* C5: a chain whose first piece is a group of several siblings makes the call
\* throw the invalid-expression error.
C5_RootGroupOfSeveralThrows ==
  Done =>
    \A c \in ChainsRun :
      LET components == Pieces(c.chain, {">"})
      IN (/\ Len(components) >= 2
          /\ components[1] \in DOMAIN dividedSections
          /\ Len(Pieces(dividedSections[components[1]], {"+"})) >= 2)
         => result.err = InvalidEmmet

\* createParalel split a string that has an empty piece
EmptyPieceSplit ==
  \E c \in result.log :
    /\ c.depth <= MaxCallDepth
    /\ LET chains == Pieces(c.emmetString, {"+"})
       IN \E i \in 1..Len(chains) : chains[i] = <<>>

\* a component of a chain that was run makes simplifiedEmmetToElement throw
SomeLeafThrows ==
  \E c \in ChainsRun :
    LET components == Pieces(c.chain, {">"})
    IN \E i \in 1..Len(components) :
         SimplifiedEmmetToElement(components[i]).err = TypeError

\* C4 as stated: whenever createParalel splits a string that has an empty
\* piece, the call throws the invalid-expression error and returns nothing.
C4_EmptyPieceThrowsInvalid ==
  (Done /\ EmptyPieceSplit) => result.err = InvalidEmmet /\ result.els = <<>>

\* C4 as amended: whenever createParalel splits a string that has an empty
\* piece, the call throws and returns nothing; it throws the
\* invalid-expression error unless a piece expanded before the empty one threw
\* first: the TypeError of an attribute token without "=", or the RangeError
\* of a recursion that does not end.
C4_EmptyPieceThrows ==
  (Done /\ EmptyPieceSplit) =>
    /\ result.els = <<>>
    /\ \/ result.err = InvalidEmmet
       \/ result.err = TypeError /\ SomeLeafThrows
       \/ result.err = RangeError /\ \E c \in result.log : c.depth > MaxCallDepth

\* an empty piece inside a group made the call throw the invalid-expression error
C4_Witness ==
  /\ Done
  /\ result.err = InvalidEmmet
  /\ \E c \in result.log :
       /\ c.depth >= 2
       /\ LET chains == Pieces(c.emmetString, {"+"})
          IN \E i \in 1..Len(chains) : chains[i] = <<>>

RECURSIVE TopLevelPieces(_)
\* the pieces of s between the "+" that lie in no group
TopLevelPieces(s) ==
  LET depth == Depths(s)
      Plus == {i \in 1..Len(s) : s[i] = "+" /\ depth[i] = 0}
  IN IF Plus = {} THEN <<s>>
     ELSE LET i == CHOOSE k \in Plus : \A j \in Plus : k <= j
          IN <<SubSeq(s, 1, i - 1)>> \o TopLevelPieces(SubSeq(s, i + 1, Len(s)))

RECURSIVE GroupsBefore(_, _)
\* the number of "(" in the pieces before piece n
GroupsBefore(pieces, n) ==
  IF n = 1 THEN 0
  ELSE GroupsBefore(pieces, n - 1)
       + Cardinality({j \in 1..Len(pieces[n - 1]) : pieces[n - 1][j] = "("})

\* C2: on a script with balanced parentheses, a call that returns returns one
\* root per piece between the "+" that lie in no group, in their order: root i
\* is the root of piece i with its groups replaced by their identifiers.
C2_OneRootPerTopLevelPiece ==
  (Done /\ Balanced(Script) /\ result.err = NoError) =>
    LET pieces == TopLevelPieces(Script)
    IN /\ Len(result.els) = Len(pieces)
       /\ \A i \in 1..Len(pieces) :
            LET data == SplitLoop(pieces[i], EmptyMap, GroupsBefore(pieces, i), segment)
                root == CreateParental(Trim(data.emmetString), dividedSections, 1)
            IN root.err = NoError /\ result.els[i] = root.els[1]

\* several roots were returned for a script that has a "+" inside a group
C2_Witness ==
  /\ Done
  /\ Balanced(Script)
  /\ result.err = NoError
  /\ Len(result.els) >= 2
  /\ \E k \in DOMAIN dividedSections : Occurs(<<"+">>, dividedSections[k])

RECURSIVE Attached(_, _, _)
\* the elements component i of a chain resolves to, those of component i + 1
\* attached after the children of the first of them
Attached(components, i, depth) ==
  LET own == CreateHTMLElement(components[i], dividedSections, depth).els
  IN IF i = Len(components) THEN own
     ELSE [own EXCEPT ![1].children = @ \o Attached(components, i + 1, depth)]

Tags(els) == [i \in 1..Len(els) |-> els[i].tagName]

\* C1: every chain that createParental ran to its end returns the first
\* element of its first piece, and the elements each later piece resolves to
\* are, in order, the last children of the first element of the piece before
\* it and of no other element.  So section>(header>h1{H}+p{P}) gives one
\* section with the children header and p, h1 being the only child of header.
C1_ChildrenGoToFirstOfPreviousPiece ==
  Done =>
    /\ \A c \in ChainsRun :
         LET r == CreateParental(c.chain, dividedSections, c.depth)
         IN r.err = NoError =>
              r.els = <<Attached(Pieces(c.chain, {">"}), 1, c.depth)[1]>>
    /\ input = GroupExample =>
         /\ result.err = NoError
         /\ Tags(result.els) = <<<<"s", "e", "c", "t", "i", "o", "n">>>>
         /\ Tags(result.els[1].children) = <<<<"h", "e", "a", "d", "e", "r">>, <<"p">>>>
         /\ Tags(result.els[1].children[1].children) = <<<<"h", "1">>>>
         /\ result.els[1].children[2].children = <<>>

\* a chain was run whose second piece is a group of several siblings and which
\* has a third piece
C1_Witness ==
  /\ Done
  /\ result.err = NoError
  /\ \E c \in ChainsRun :
       LET components == Pieces(c.chain, {">"})
       IN /\ Len(components) >= 3
          /\ components[2] \in DOMAIN dividedSections
          /\ Len(CreateHTMLElement(components[2], dividedSections, c.depth).els) >= 2

====
